---- MODULE Spec2Model ----
(***************************************************************************)
(* Model of frontend/js/app.js: the WaterfallVisualizer (row history,      *)
(* scene, container/camera, render loop), the spectrum_data socket         *)
(* handler with the line chart update, and the start/stop controls.        *)
(*                                                                         *)
(* JavaScript runs every handler to completion, so each handler is one     *)
(* action.  Rows are THREE.Line objects; a row is a record                 *)
(*   [id |-> identity, y |-> position.y, xs |-> x coordinates of the       *)
(*    geometry]                                                            *)
(* Coordinates follow the code: y = clientHeight is the top of the         *)
(* container and rows move towards y = 0 and below.                        *)
(*                                                                         *)
(* Spec is the whole page.  SpecFixed and SpecLive keep the container's    *)
(* size, SpecDeep has a history one row deeper, SpecDetach lets the page   *)
(* detach the container, SpecObserved records the order of the clicks,     *)
(* SpecNormalize and SpecColor apply normalizeData and getColor to         *)
(* arguments drawn from bounded sets.                                      *)
(***************************************************************************)
EXTENDS Integers, Sequences, FiniteSets, TLC

\* ---------------------------------------------------------------- configuration
\* config.maxLines: 5000 in the source, scaled down here so that a container
\* a few rows high can overflow it
ScaledMaxLines == 2
\* a history one row deeper, in which a row can leave the middle of the
\* history while an older row stays
DeepMaxLines == 3
\* config.spacing
spacing == 1

\* ---------------------------------------------------------------- bounds
\* container heights range over 0..MaxHeight
MaxHeight == 2
\* at most MaxFrames rows are ever created
MaxFrames == 3
\* outstanding HTTP requests of one kind
MaxPending == 1

\* a frame under normalizeData has at most MaxSamples samples, each an
\* integer level in -MaxLevel..MaxLevel
MaxSamples == 3
MaxLevel == 2
\* getColor is studied on values from MaxOver steps below 0 to MaxOver steps
\* above 1, and on NaN
MaxOver == 10

Heights == 0..MaxHeight
\* container widths (both divisible by every N-1 used below)
Widths == {2, 4}
\* lengths of the waterfall array of a frame
SampleCounts == {0, 1, 2}

\* ---------------------------------------------------------------- payloads
\* A field of the payload object: absent (undefined / falsy), a truthy value
\* that is not an array (number, string, object), or an array.
FreqsKinds == {"missing", "scalar", "array"}
PowerKinds == {"missing", "array"}
\* the waterfall field; an array carries its length n (n = 0 otherwise)
WaterfallKinds ==
    [kind : {"missing", "scalar"}, n : {0}] \cup [kind : {"array"}, n : SampleCounts]

\* values a payload can denote: null, or an object with the three fields
NullValue == [tag |-> "null", freqs |-> "missing", power |-> "missing",
              waterfall |-> [kind |-> "missing", n |-> 0]]
Objects == [tag : {"object"}, freqs : FreqsKinds, power : PowerKinds,
            waterfall : WaterfallKinds]
Values == {NullValue} \cup Objects

\* what arrives on the socket: a structured value ("object"), a string that is
\* the JSON text of a value ("json"), or a string that is not JSON ("garbage")
Frame(f, p, wk, n) ==
    [tag |-> "object", freqs |-> f, power |-> p, waterfall |-> [kind |-> wk, n |-> n]]
\* the values tried as JSON text
JsonValues == {NullValue, Frame("array", "array", "array", 2),
               Frame("array", "array", "missing", 0)}
Payloads == [wire : {"object"}, val : Values]
            \cup [wire : {"json"}, val : JsonValues]
            \cup [wire : {"garbage"}, val : {NullValue}]

VARIABLES
    lines,          \* this.lines, newest first
    scene,          \* ids of the rows attached to this.scene
    clientWidth,    \* this.container.clientWidth
    clientHeight,   \* this.container.clientHeight
    camera,         \* [right, top] of this.camera (renderer size is the same pair)
    frameCount,     \* number of THREE.Line objects created so far (next id - 1)
    log,            \* the error the latest spectrum_data handler run logged, or "none"
    escaped,        \* an exception left the spectrum_data handler
    isStreaming,    \* module-level flag
    startPending,   \* /api/start requests awaiting their response
    stopPending,    \* /api/stop requests awaiting their response
    rafPending,     \* a requestAnimationFrame callback is scheduled
    maxLines,       \* this.config.maxLines
    disposed,       \* ids of the rows whose geometry and material were disposed
    attached,       \* the container is part of the document
    latest,         \* observer: the user's latest click; "stopDone" once a stop
                    \* that was the latest click has been answered with success
    arg,            \* argument of the function under study
    result          \* << >> before the function is applied, << value >> after

vars == <<lines, scene, clientWidth, clientHeight, camera, frameCount,
          log, escaped, isStreaming, startPending, stopPending, rafPending,
          maxLines, disposed, attached, latest, arg, result>>

\* what the handlers of the page never write: the configuration, the disposed
\* resources (no dispose() call exists) and the attachment of the container
untouched == <<maxLines, disposed, attached>>
\* the variables that observe a run or hold a function's argument and result
study == <<latest, arg, result>>

\* ---------------------------------------------------------------- geometry
\* normalizeData keeps the length; createGeometry: xScale = width / (N - 1),
\* x_i = i * xScale.  N = 1 divides by zero: xScale = Infinity, 0 * Infinity = NaN.
\* N = 0 gives an empty geometry.  Nothing throws for an array.
NaN == -1
createGeometry(n, width) ==
    IF n = 0 THEN << >>
    ELSE IF n = 1 THEN << NaN >>
    ELSE [i \in 1..n |-> (i - 1) * (width \div (n - 1))]

\* ---------------------------------------------------------------- normalizeData
\* the frames normalizeData is studied on
Levels == -MaxLevel..MaxLevel
RawFrames == UNION {[1..n -> Levels] : n \in 0..MaxSamples}

\* a quotient of two integers, kept as the pair the division was made of
Quotient(num, den) == [num |-> num, den |-> den]
\* the literal 0.5
Half == Quotient(1, 2)

\* Math.min(...data) and Math.max(...data) of a non-empty array
RECURSIVE MathMin(_, _)
MathMin(data, i) ==
    IF i = Len(data) THEN data[i]
    ELSE LET m == MathMin(data, i + 1) IN IF data[i] < m THEN data[i] ELSE m
RECURSIVE MathMax(_, _)
MathMax(data, i) ==
    IF i = Len(data) THEN data[i]
    ELSE LET m == MathMax(data, i + 1) IN IF data[i] > m THEN data[i] ELSE m

\* variant: the test for a flat frame is missing
normalizeDataNoFlatTest(data) ==
    IF data = << >> THEN << >>
    ELSE LET min == MathMin(data, 1)
             max == MathMax(data, 1)
             range == max - min
         IN  [i \in DOMAIN data |-> Quotient(data[i] - min, range)]

\* normalizeData(data).  For the empty array Math.min() is Infinity and
\* Math.max() is -Infinity, the range is not 0 and map runs over nothing.
normalizeData(data) ==
    IF data = << >> THEN << >>
    ELSE LET min == MathMin(data, 1)
             max == MathMax(data, 1)
             range == max - min
         IN  IF range = 0
             THEN [i \in DOMAIN data |-> Half]
             ELSE [i \in DOMAIN data |-> Quotient(data[i] - min, range)]

\* createGeometry, as far as it normalizes: one frame after another
ApplyNormalize ==
    /\ result = << >>
    /\ result' = << normalizeData(arg) >>
    /\ UNCHANGED <<lines, scene, clientWidth, clientHeight, camera, frameCount,
                   log, escaped, isStreaming, startPending, stopPending,
                   rafPending, untouched, latest, arg>>

\* the next frame to normalize
NextFrame ==
    /\ result # << >>
    /\ arg' \in RawFrames
    /\ result' = << >>
    /\ UNCHANGED <<lines, scene, clientWidth, clientHeight, camera, frameCount,
                   log, escaped, isStreaming, startPending, stopPending,
                   rafPending, untouched, latest>>

\* ---------------------------------------------------------------- getColor
\* values are counted in steps of 1/Scale: 1.0 is Scale steps
Scale == 40
\* config.colors: [position, colour]
colors == << [t |-> 0,                 hex |-> "0000ff"],
            [t |-> Scale \div 4,       hex |-> "00ffff"],
            [t |-> Scale \div 2,       hex |-> "00ff00"],
            [t |-> (3 * Scale) \div 4, hex |-> "ffff00"],
            [t |-> Scale,             hex |-> "ff0000"] >>

\* new THREE.Color(hex).getHSL(): hue in degrees, saturation and lightness
\* in percent
getHSL(hex) ==
    CASE hex = "0000ff" -> [h |-> 240, s |-> 100, l |-> 50]
      [] hex = "00ffff" -> [h |-> 180, s |-> 100, l |-> 50]
      [] hex = "00ff00" -> [h |-> 120, s |-> 100, l |-> 50]
      [] hex = "ffff00" -> [h |-> 60,  s |-> 100, l |-> 50]
      [] hex = "ff0000" -> [h |-> 0,   s |-> 100, l |-> 50]

\* a + (b - a) * t for t = num / den
Lerp(a, b, num, den) == Quotient(a * den + (b - a) * num, den)

\* setHSL clamps the saturation it is given to [0, 1]; the code passes sat * 1.5
Boosted(sat) ==
    IF 3 * sat.num > 2 * sat.den * 100 THEN Quotient(100, 1)
    ELSE Quotient(3 * sat.num, 2 * sat.den)

\* what getColor is called with: a number (in steps) or NaN
ColorInputs == [nan : {FALSE}, v : (-MaxOver)..(Scale + MaxOver)]
               \cup {[nan |-> TRUE, v |-> 0]}

\* Math.min(Math.max(value, 0), 1)
Clamp(v) == IF v < 0 THEN 0 ELSE IF v > Scale THEN Scale ELSE v

\* for (let i = 1; i < colors.length; i++) if (value <= colors[i][0]):
\* the stop the loop stops at (indices from 1 here), 0 when it runs out
RECURSIVE FirstStop(_, _)
FirstStop(value, i) ==
    IF i > Len(colors) THEN 0
    ELSE IF value <= colors[i].t THEN i
    ELSE FirstStop(value, i + 1)

\* the body of the if: interpolate in HSL between the stops i-1 and i
Interpolate(value, i) ==
    LET prev == colors[i - 1]
        next == colors[i]
        num == value - prev.t
        den == next.t - prev.t
        c1 == getHSL(prev.hex)
        c2 == getHSL(next.hex)
    IN  [h |-> Lerp(c1.h, c2.h, num, den),
         s |-> Boosted(Lerp(c1.s, c2.s, num, den)),
         l |-> Lerp(c1.l, c2.l, num, den)]

\* return new THREE.Color(colors[colors.length - 1][1])
LastColor ==
    LET c == getHSL(colors[Len(colors)].hex)
    IN  [h |-> Quotient(c.h, 1), s |-> Quotient(c.s, 1), l |-> Quotient(c.l, 1)]

\* variant: the value is not clamped
getColorNoClamp(input) ==
    IF input.nan THEN LastColor
    ELSE LET i == FirstStop(input.v, 2)
         IN  IF i = 0 THEN LastColor ELSE Interpolate(input.v, i)

\* getColor(value).  Every comparison with NaN is false, so NaN leaves the
\* clamp as NaN and the loop without a match.
getColor(input) ==
    IF input.nan THEN LastColor
    ELSE LET value == Clamp(input.v)
             i == FirstStop(value, 2)
         IN  IF i = 0 THEN LastColor ELSE Interpolate(value, i)

\* createGeometry, as far as it colours: one value after another
ApplyColor ==
    /\ result = << >>
    /\ result' = << getColor(arg) >>
    /\ UNCHANGED <<lines, scene, clientWidth, clientHeight, camera, frameCount,
                   log, escaped, isStreaming, startPending, stopPending,
                   rafPending, untouched, latest, arg>>

\* the next value to colour
NextValue ==
    /\ result # << >>
    /\ arg' \in ColorInputs
    /\ result' = << >>
    /\ UNCHANGED <<lines, scene, clientWidth, clientHeight, camera, frameCount,
                   log, escaped, isStreaming, startPending, stopPending,
                   rafPending, untouched, latest>>

\* ---------------------------------------------------------------- addData
Last(s) == s[Len(s)]
Front(s) == SubSeq(s, 1, Len(s) - 1)

\* line.position.y -= spacing on the object with this id, seen through any array
MoveDown(arr, id) ==
    [k \in DOMAIN arr |-> IF arr[k].id = id THEN [arr[k] EXCEPT !.y = @ - spacing]
                                              ELSE arr[k]]

Without(arr, id) ==
    LET keep(l) == l.id # id IN SelectSeq(arr, keep)

\* variant: no row ever counts as having hit the bottom
HitBottomNever(y) == FALSE

\* remove lines that hit bottom: the test of the moved position
\* variant: the bottom test one spacing too late
HitBottomLate(y) == y < -spacing - spacing
HitBottom(y) == y < -spacing

\* variant: the pass walks this.lines itself by index, so that a removal
\* shifts the rows behind it under the index
RECURSIVE ForEachLive(_, _, _, _)
ForEachLive(arr, i, cur, scn) ==
    IF i > Len(cur) THEN [lines |-> cur, scene |-> scn]
    ELSE LET id == cur[i].id
             y1 == cur[i].y - spacing
             moved == MoveDown(cur, id)
         IN  IF HitBottom(y1)
             THEN ForEachLive(arr, i + 1, Without(moved, id), scn \ {id})
             ELSE ForEachLive(arr, i + 1, moved, scn)

\* this.lines.forEach(...): the array being iterated is the one this.lines
\* named when forEach started; the callback reassigns this.lines (cur) to a
\* filtered copy and removes from the scene (scn)
RECURSIVE ForEachLine(_, _, _, _)
ForEachLine(arr, i, cur, scn) ==
    IF i > Len(arr) THEN [lines |-> cur, scene |-> scn]
    ELSE LET id == arr[i].id
             y1 == arr[i].y - spacing
             moved == MoveDown(cur, id)
         IN  IF HitBottom(y1)
             THEN ForEachLine(arr, i + 1, Without(moved, id), scn \ {id})
             ELSE ForEachLine(arr, i + 1, moved, scn)

\* variant: no overflow eviction
PopOldestNever(st) == st

\* variant: the overflow eviction takes the newest row (shift instead of pop)
PopNewest(st) ==
    IF Len(st.lines) > maxLines
    THEN [lines |-> Tail(st.lines), scene |-> st.scene \ {Head(st.lines).id}]
    ELSE st

\* variant: the overflow eviction forgets the scene
PopOldestKeepScene(st) ==
    IF Len(st.lines) > maxLines
    THEN [lines |-> Front(st.lines), scene |-> st.scene]
    ELSE st

\* remove oldest line if needed
PopOldest(st) ==
    IF Len(st.lines) > maxLines
    THEN [lines |-> Front(st.lines), scene |-> st.scene \ {Last(st.lines).id}]
    ELSE st

\* variant: the row is left at the y of its geometry
NewLineAtZero(n) ==
    [id |-> frameCount + 1, y |-> 0, xs |-> createGeometry(n, clientWidth)]

\* the row as constructed: placed at the very top
NewLine(n) ==
    [id |-> frameCount + 1, y |-> clientHeight, xs |-> createGeometry(n, clientWidth)]

\* variant: the insert returns before the advance pass
addDataNoAdvance(n) ==
    LET line == NewLine(n)
        st1 == [lines |-> << line >> \o lines, scene |-> scene \cup {line.id}]
    IN  PopOldest(st1)

\* addData(data) for a waterfall array of n samples: the history and scene after it
addData(n) ==
    LET line == NewLine(n)
        st1 == [lines |-> << line >> \o lines, scene |-> scene \cup {line.id}]
        st2 == PopOldest(st1)
    IN  ForEachLine(st2.lines, 1, st2.lines, st2.scene)

\* ---------------------------------------------------------------- line chart
\* updateLineChart(data): returns early without freqs or power; data.freqs.map
\* throws a TypeError when freqs is truthy but not an array
\* (the error it throws, "none" otherwise; the chart's contents are not
\* part of the model)
updateLineChart(obj) ==
    IF obj.freqs = "missing" \/ obj.power = "missing" THEN "none"
    ELSE IF obj.freqs = "scalar" THEN "TypeError"
    ELSE "none"

\* ---------------------------------------------------------------- socket handler
\* typeof data === 'string' ? JSON.parse(data) : data
\* JSON.parse throws on text that is not JSON
ParseThrows(data) == data.wire = "garbage"
Parsed(data) == data.val

\* variant: the validation forgets freqs
InvalidWaterfallOnly(obj) == obj.waterfall.kind = "missing"

\* validate data structure: !parsedData.freqs || !parsedData.waterfall
Invalid(obj) == obj.freqs = "missing" \/ obj.waterfall.kind = "missing"

Threw(error) ==
    [error |-> error, lines |-> lines, scene |-> scene, created |-> 0]

\* the body of the try block: what it leaves behind and the error it threw
\* ("none" when it ran to its end)
TryBody(data) ==
    IF ParseThrows(data) THEN Threw("SyntaxError")
    ELSE LET obj == Parsed(data) IN
         \* null.freqs is a TypeError
         IF obj.tag = "null" THEN Threw("TypeError")
         ELSE IF Invalid(obj) THEN Threw("Invalid data structure")
         \* addData -> createGeometry -> normalizeData: Math.min(...data) / data.map
         \* throw a TypeError on a non-array before anything is modified
         ELSE IF obj.waterfall.kind = "scalar" THEN Threw("TypeError")
         ELSE LET st == addData(obj.waterfall.n)
              IN  [error |-> updateLineChart(obj), lines |-> st.lines,
                   scene |-> st.scene, created |-> 1]

\* socket.on('spectrum_data', (data) => { if (!isStreaming) return; try {...} catch {...} })
OnSpectrumData(data) ==
    /\ frameCount < MaxFrames
    /\ IF ~isStreaming
       THEN /\ log' = "none"
            /\ UNCHANGED <<lines, scene, frameCount, escaped>>
       ELSE LET r == TryBody(data) IN
            /\ lines' = r.lines
            /\ scene' = r.scene
            /\ frameCount' = frameCount + r.created
            \* catch (error) { console.error(...); console.log(...) }
            /\ log' = r.error
            /\ escaped' = escaped
    /\ UNCHANGED <<clientWidth, clientHeight, camera, isStreaming, startPending,
                   stopPending, rafPending>>

\* ---------------------------------------------------------------- container
\* variant: the resize lays the existing rows out again at the new width
onResizeRestretch(w, h) ==
    /\ attached
    /\ <<w, h>> # <<clientWidth, clientHeight>>
    /\ clientWidth' = w
    /\ clientHeight' = h
    /\ camera' = [right |-> w, top |-> h]
    /\ lines' = [k \in DOMAIN lines |->
                    [lines[k] EXCEPT !.xs = createGeometry(Len(@), w)]]
    /\ UNCHANGED <<scene, frameCount, log, escaped, isStreaming,
                   startPending, stopPending, rafPending>>

\* onResize(): the browser lays the container out at a new size and delivers
\* the ResizeObserver notification in the same rendering update; the callback
\* reads the container's size and sets the renderer size and the camera
onResize(w, h) ==
    /\ attached
    /\ <<w, h>> # <<clientWidth, clientHeight>>
    /\ clientWidth' = w
    /\ clientHeight' = h
    /\ camera' = [right |-> w, top |-> h]
    /\ UNCHANGED <<lines, scene, frameCount, log, escaped, isStreaming,
                   startPending, stopPending, rafPending>>

\* the page takes the container out of the document: it has no layout any
\* more (client size 0 x 0) and the ResizeObserver callback runs onResize with
\* that size.  The animation frame request is a request to the window and
\* app.js holds no cancelAnimationFrame, so it stays scheduled.
Detach ==
    /\ attached
    /\ attached' = FALSE
    /\ clientWidth' = 0
    /\ clientHeight' = 0
    /\ camera' = [right |-> 0, top |-> 0]
    /\ UNCHANGED <<lines, scene, frameCount, log, escaped, isStreaming,
                   startPending, stopPending, rafPending, maxLines, disposed,
                   study>>

\* ---------------------------------------------------------------- render loop
\* variant: the render tick scrolls the rows
animateScroll ==
    /\ rafPending
    /\ rafPending' = TRUE
    /\ lines' = [k \in DOMAIN lines |-> [lines[k] EXCEPT !.y = @ - spacing]]
    /\ UNCHANGED <<scene, clientWidth, clientHeight, camera, frameCount,
                   log, escaped, isStreaming, startPending, stopPending>>

\* animate(): requestAnimationFrame schedules the next tick, then
\* renderer.render(scene, camera) draws the scene; it writes nothing the
\* program reads back
animate ==
    /\ rafPending
    /\ rafPending' = TRUE
    /\ UNCHANGED <<lines, scene, clientWidth, clientHeight, camera, frameCount,
                   log, escaped, isStreaming, startPending, stopPending>>

\* ---------------------------------------------------------------- controls
\* startBtn click up to the await of fetch
StartClick ==
    /\ startPending < MaxPending
    /\ startPending' = startPending + 1
    /\ UNCHANGED <<lines, scene, clientWidth, clientHeight, camera, frameCount,
                   log, escaped, isStreaming, stopPending, rafPending>>

\* variant: the flag is set whatever the response says
StartResponseAlways(ok) ==
    /\ startPending > 0
    /\ startPending' = startPending - 1
    /\ isStreaming' = TRUE
    /\ UNCHANGED <<lines, scene, clientWidth, clientHeight, camera, frameCount,
                   log, escaped, stopPending, rafPending>>

\* the rest of the start handler: response.ok sets the flag, anything else alerts
StartResponse(ok) ==
    /\ startPending > 0
    /\ startPending' = startPending - 1
    /\ isStreaming' = IF ok THEN TRUE ELSE isStreaming
    /\ UNCHANGED <<lines, scene, clientWidth, clientHeight, camera, frameCount,
                   log, escaped, stopPending, rafPending>>

StopClick ==
    /\ stopPending < MaxPending
    /\ stopPending' = stopPending + 1
    /\ UNCHANGED <<lines, scene, clientWidth, clientHeight, camera, frameCount,
                   log, escaped, isStreaming, startPending, rafPending>>

StopResponse(ok) ==
    /\ stopPending > 0
    /\ stopPending' = stopPending - 1
    /\ isStreaming' = IF ok THEN FALSE ELSE isStreaming
    /\ UNCHANGED <<lines, scene, clientWidth, clientHeight, camera, frameCount,
                   log, escaped, startPending, rafPending>>

\* ---------------------------------------------------------------- specification
\* after new WaterfallVisualizer(container) and initialize(): the constructor
\* has run initThree, setupScene and the first animate()
Constructed ==
    /\ lines = << >>
    /\ scene = {}
    /\ clientWidth \in Widths
    /\ clientHeight \in Heights
    /\ camera = [right |-> clientWidth, top |-> clientHeight]
    /\ frameCount = 0
    /\ log = "none"
    /\ escaped = FALSE
    /\ isStreaming = FALSE
    /\ startPending = 0
    /\ stopPending = 0
    /\ rafPending = TRUE
    /\ disposed = {}
    /\ attached = TRUE

\* nothing observed yet, no function under study
NoStudy ==
    /\ latest = "none"
    /\ arg = << >>
    /\ result = << >>

Init ==
    /\ Constructed
    /\ maxLines = ScaledMaxLines
    /\ NoStudy

Next ==
    \/ (\E data \in Payloads : OnSpectrumData(data)) /\ UNCHANGED <<untouched, study>>
    \/ (\E w \in Widths, h \in Heights : onResize(w, h)) /\ UNCHANGED <<untouched, study>>
    \/ animate /\ UNCHANGED <<untouched, study>>
    \/ StartClick /\ UNCHANGED <<untouched, study>>
    \/ (\E ok \in BOOLEAN : StartResponse(ok)) /\ UNCHANGED <<untouched, study>>
    \/ StopClick /\ UNCHANGED <<untouched, study>>
    \/ (\E ok \in BOOLEAN : StopResponse(ok)) /\ UNCHANGED <<untouched, study>>

Spec == Init /\ [][Next]_vars

\* the same program in a container that is never resized
NextFixed ==
    \/ (\E data \in Payloads : OnSpectrumData(data)) /\ UNCHANGED <<untouched, study>>
    \/ animate /\ UNCHANGED <<untouched, study>>
    \/ StartClick /\ UNCHANGED <<untouched, study>>
    \/ (\E ok \in BOOLEAN : StartResponse(ok)) /\ UNCHANGED <<untouched, study>>
    \/ StopClick /\ UNCHANGED <<untouched, study>>
    \/ (\E ok \in BOOLEAN : StopResponse(ok)) /\ UNCHANGED <<untouched, study>>

SpecFixed == Init /\ [][NextFixed]_vars

\* the program on a page that may detach the container
NextDetach ==
    \/ Next
    \/ Detach

SpecDetach == Init /\ [][NextDetach]_vars

\* normalizeData on its own: frames drawn from RawFrames, one after another
InitNormalize ==
    /\ Constructed
    /\ maxLines = ScaledMaxLines
    /\ latest = "none"
    /\ arg \in RawFrames
    /\ result = << >>

NextNormalize ==
    \/ ApplyNormalize
    \/ NextFrame

SpecNormalize == InitNormalize /\ [][NextNormalize]_vars

\* getColor on its own: values drawn from ColorInputs, one after another
InitColor ==
    /\ Constructed
    /\ maxLines = ScaledMaxLines
    /\ latest = "none"
    /\ arg \in ColorInputs
    /\ result = << >>

NextColor ==
    \/ ApplyColor
    \/ NextValue

SpecColor == InitColor /\ [][NextColor]_vars

\* the program with the clicks observed: latest is the button clicked last,
\* and becomes "stopDone" when a stop that was the last click, and is the only
\* stop outstanding, is answered with success
StopAnswered(ok) ==
    IF ok /\ latest = "stop" /\ stopPending = 1 THEN "stopDone" ELSE latest

NextObserved ==
    \/ (\E data \in Payloads : OnSpectrumData(data)) /\ UNCHANGED <<untouched, study>>
    \/ (\E w \in Widths, h \in Heights : onResize(w, h)) /\ UNCHANGED <<untouched, study>>
    \/ animate /\ UNCHANGED <<untouched, study>>
    \/ StartClick /\ latest' = "start" /\ UNCHANGED <<untouched, arg, result>>
    \/ (\E ok \in BOOLEAN : StartResponse(ok)) /\ UNCHANGED <<untouched, study>>
    \/ StopClick /\ latest' = "stop" /\ UNCHANGED <<untouched, arg, result>>
    \/ \E ok \in BOOLEAN :
          StopResponse(ok) /\ latest' = StopAnswered(ok) /\ UNCHANGED <<untouched, arg, result>>

SpecObserved == Init /\ [][NextObserved]_vars

\* the same program with the deeper history, sent well-formed frames of
\* every length and frames without a waterfall
InitDeep ==
    /\ Constructed
    /\ maxLines = DeepMaxLines
    /\ NoStudy

DeepPayloads ==
    [wire : {"object"},
     val : {Frame("array", "array", "array", n) : n \in SampleCounts}
           \cup {Frame("array", "array", "missing", 0)}]

NextDeep ==
    \/ (\E data \in DeepPayloads : OnSpectrumData(data)) /\ UNCHANGED <<untouched, study>>
    \/ (\E w \in Widths, h \in Heights : onResize(w, h)) /\ UNCHANGED <<untouched, study>>
    \/ animate /\ UNCHANGED <<untouched, study>>
    \/ StartClick /\ UNCHANGED <<untouched, study>>
    \/ (\E ok \in BOOLEAN : StartResponse(ok)) /\ UNCHANGED <<untouched, study>>
    \/ StopClick /\ UNCHANGED <<untouched, study>>
    \/ (\E ok \in BOOLEAN : StopResponse(ok)) /\ UNCHANGED <<untouched, study>>

SpecDeep == InitDeep /\ [][NextDeep]_vars

\* the program in a container that is never resized, sent the same frames by
\* a source that keeps sending.  AcceptFrame is a spectrum_data handler run
\* that inserts a row: while the flag is on and the source sends a valid
\* frame the event loop runs the handler, so such a step is not postponed
\* forever.
AcceptFrame ==
    /\ \E data \in DeepPayloads : OnSpectrumData(data)
    /\ frameCount' # frameCount
    /\ UNCHANGED <<untouched, study>>

NextLive ==
    \/ (\E data \in DeepPayloads : OnSpectrumData(data)) /\ UNCHANGED <<untouched, study>>
    \/ animate /\ UNCHANGED <<untouched, study>>
    \/ StartClick /\ UNCHANGED <<untouched, study>>
    \/ (\E ok \in BOOLEAN : StartResponse(ok)) /\ UNCHANGED <<untouched, study>>
    \/ StopClick /\ UNCHANGED <<untouched, study>>
    \/ (\E ok \in BOOLEAN : StopResponse(ok)) /\ UNCHANGED <<untouched, study>>

SpecLive == Init /\ [][NextLive]_vars /\ WF_vars(AcceptFrame)

TypeOK ==
    /\ Len(lines) <= maxLines + 1
    /\ frameCount \in 0..MaxFrames

\* ---------------------------------------------------------------- properties
Ids(s) == [i \in DOMAIN s |-> s[i].id]
IdSet(s) == {s[i].id : i \in DOMAIN s}
Min(a, b) == IF a < b THEN a ELSE b
\* a step of the spectrum_data handler that created a row
Inserted == frameCount' # frameCount
\* the history or the scene differs after the step
HistoryChanged == lines' # lines \/ scene' # scene
HistoryKept == lines' = lines /\ scene' = scene /\ frameCount' = frameCount

\* C1: after every insert, whatever resizes and render ticks come between,
\* the history holds at most maxLines rows
C1_LengthBounded == Len(lines) <= maxLines

\* C1 witness: more frames than maxLines were accepted, the history is full
\* and its oldest row is still above the bottom (the overflow eviction acted)
C1_Witness ==
    /\ frameCount > maxLines
    /\ Len(lines) = maxLines
    /\ \A i \in DOMAIN lines : lines[i].y >= 0

\* C2 as stated: after k > maxLines accepted frames the history is exactly
\* the rows of the newest maxLines frames, newest first
C2_Original ==
    frameCount > maxLines =>
        Ids(lines) = [i \in 1..maxLines |-> frameCount - i + 1]

\* rows a container of the current height can hold before they hit bottom
Visible == clientHeight \div spacing + 1

\* C2 amended: in a container that is never resized, after k > maxLines
\* accepted frames the history is exactly the rows of the newest
\* min(maxLines, floor(clientHeight / spacing) + 1) frames, newest first
C2_NewestKept ==
    frameCount > maxLines =>
        Ids(lines) = [i \in 1..Min(maxLines, Visible) |-> frameCount - i + 1]

\* C2 witness: more than maxLines frames went in and the history is shorter
\* than maxLines because rows scrolled past the bottom
C2_Witness ==
    /\ frameCount > maxLines
    /\ Len(lines) >= 1
    /\ Len(lines) < maxLines

\* C3: no row of the history lies below -spacing
C3_NoRowPastBottom == \A i \in DOMAIN lines : lines[i].y >= -spacing

\* C3 witness: a row has been removed for hitting bottom (fewer rows than
\* frames, history not full) and a remaining row sits exactly on the bound
C3_Witness ==
    /\ frameCount > Len(lines)
    /\ Len(lines) < maxLines
    /\ \E i \in DOMAIN lines : lines[i].y = -spacing

\* C4 as stated: every row is strictly below every newer row (position.y
\* strictly decreases from newest to oldest), also across resizes
C4_Original ==
    \A i, j \in DOMAIN lines : i < j => lines[i].y > lines[j].y

\* C5 as stated: when an insert has completed, the new row is the head of the
\* history and sits at the insertion baseline, the top of the container
C5_Original ==
    [][Inserted =>
        /\ Len(lines') >= 1
        /\ lines'[1].id = frameCount'
        /\ lines'[1].y = clientHeight]_vars

\* C5 amended: when an insert has completed, the new row is the head of the
\* history and sits one spacing below the top of the container, because the
\* advance step of the same insert moves it too
C5_HeadOneSpacingDown ==
    [][Inserted =>
        /\ Len(lines') >= 1
        /\ lines'[1].id = frameCount'
        /\ lines'[1].y = clientHeight - spacing]_vars

\* C5 witness: the newest row heads a history of several rows, one spacing
\* below the top
C5_Witness ==
    /\ Len(lines) >= 2
    /\ lines[1].id = frameCount
    /\ lines[1].y = clientHeight - spacing

\* a payload whose waterfall is an array of fewer than 2 samples and that
\* passes the handler's validation
TooShort(data) ==
    /\ data.wire # "garbage"
    /\ data.val.freqs # "missing"
    /\ data.val.waterfall.kind = "array"
    /\ data.val.waterfall.n < 2

\* C6 as stated: an insert of a frame with fewer than 2 samples is rejected:
\* an error is reported, no row is created, history and scene stay as they were
C6_Original ==
    [][\A data \in Payloads :
        (isStreaming /\ TooShort(data) /\ OnSpectrumData(data)) =>
            (log' # "none" /\ HistoryKept)]_vars

\* a payload object without freqs or without waterfall
Lacking(data) ==
    /\ data.wire # "garbage"
    /\ data.val.tag = "object"
    /\ (data.val.freqs = "missing" \/ data.val.waterfall.kind = "missing")

\* C7: a payload (object or JSON text) lacking freqs or waterfall is dropped:
\* in every state the try block run on it throws the validation error with
\* history and scene untouched and no row created, and every step that ends
\* with that error as the handler's log entry leaves history and scene as
\* they were and lets no exception out of the handler (the entry is written
\* while streaming; with the flag off every event is ignored without one)
C7_MalformedDropped ==
    /\ [](\A data \in Payloads :
            Lacking(data) => TryBody(data) = Threw("Invalid data structure"))
    /\ [][log' = "Invalid data structure" => (HistoryKept /\ ~escaped')]_vars

\* C7 witness: the validation error has been logged over a non-empty history
C7_Witness ==
    /\ isStreaming
    /\ log = "Invalid data structure"
    /\ Len(lines) >= 1

\* C8 as stated: whenever the handler catches and logs an error, the history
\* and scene are as before the event and nothing escapes the handler
C8_Original ==
    [][\A data \in Payloads :
        (isStreaming /\ OnSpectrumData(data) /\ log' # "none") =>
            (HistoryKept /\ ~escaped')]_vars

\* C9: a render tick leaves the history and scene as they are, and the
\* history and scene change only in a step that accepts a frame
C9_RenderReadOnly ==
    [][/\ animate => HistoryKept
       /\ HistoryChanged => Inserted]_vars

\* C9 witness: the render loop is scheduled over a non-empty history
C9_Witness ==
    /\ rafPending
    /\ Len(lines) >= 2
    /\ scene = IdSet(lines)

\* the rows of the old history that are still in the new one moved down by
\* one spacing
SurvivorsAdvanced ==
    \A i \in DOMAIN lines : \A j \in DOMAIN lines' :
        lines'[j].id = lines[i].id => lines'[j].y = lines[i].y - spacing

\* C10: every step in which the history changes is one whole insert of the
\* next frame: one new row, which is the head and already advanced, at most
\* maxLines rows, none past the bottom, every surviving older row advanced,
\* rows in arrival order
C10_InsertAtomic ==
    [][HistoryChanged =>
        /\ frameCount' = frameCount + 1
        /\ Len(lines') >= 1
        /\ lines'[1].id = frameCount'
        /\ lines'[1].y = clientHeight - spacing
        /\ Len(lines') <= maxLines
        /\ \A i \in DOMAIN lines' : lines'[i].y >= -spacing
        /\ SurvivorsAdvanced
        /\ \A i, j \in DOMAIN lines' : i < j => lines'[i].id > lines'[j].id]_vars

\* C10 witness: after an overflow eviction the full history holds the two
\* newest frames in order, the older one advanced twice
C10_Witness ==
    /\ frameCount > maxLines
    /\ Len(lines) = maxLines
    /\ lines[1].id = frameCount
    /\ lines[2].id = frameCount - 1
    /\ lines[2].y = lines[1].y - spacing

\* C11: a resize of the container changes the camera and the renderer size
\* only: the history, the scene and every row's x coordinates and y position
\* stay as they were; a row inserted afterwards is built with the width the
\* container has then (x from 0 to that width), and the rows that stay in
\* the history keep the x coordinates they were built with
Resized == clientWidth' # clientWidth \/ clientHeight' # clientHeight
SurvivorsKeepGeometry ==
    \A i \in DOMAIN lines : \A j \in DOMAIN lines' :
        lines'[j].id = lines[i].id => lines'[j].xs = lines[i].xs
C11_ResizeViewportOnly ==
    [][/\ Resized => /\ HistoryKept
                      /\ camera' = [right |-> clientWidth', top |-> clientHeight']
       /\ Inserted => /\ SurvivorsKeepGeometry
                       /\ Len(lines'[1].xs) >= 2 =>
                              /\ lines'[1].xs[1] = 0
                              /\ Last(lines'[1].xs) = clientWidth]_vars
\* a row built at the present width above a row built at another width
C11_Witness ==
    /\ Len(lines) = 2
    /\ lines[1].xs = <<0, clientWidth>>
    /\ Len(lines[2].xs) = 2
    /\ lines[2].xs[2] # clientWidth
    /\ camera.right = clientWidth

\* C12: the history changes only in a spectrum_data step taken while
\* isStreaming is true; the flag turns true only when a start response is
\* handled and false only when a stop response is handled, and a start or
\* stop request that failed leaves the flag as it was
C12_GatedByFlag ==
    [][/\ HistoryChanged => (isStreaming /\ isStreaming')
       /\ (~isStreaming /\ isStreaming') => startPending' = startPending - 1
       /\ (isStreaming /\ ~isStreaming') => stopPending' = stopPending - 1
       /\ (StartResponse(FALSE) \/ StopResponse(FALSE)) => isStreaming' = isStreaming]_vars
\* streaming was started, rows were taken in and streaming was stopped
\* again, with room for further frames to arrive
C12_Witness ==
    /\ ~isStreaming
    /\ Len(lines) >= 1
    /\ startPending = 0
    /\ stopPending = 0
    /\ log = "none"
    /\ frameCount < MaxFrames

\* C13: every row that has left the history has had its geometry disposed by
\* the end of the insert that evicted it, so the geometries still held
\* (created and not disposed) never number more than maxLines
Held == (1..frameCount) \ disposed
C13_Original ==
    /\ \A id \in 1..frameCount : id \notin IdSet(lines) => id \in disposed
    /\ Cardinality(Held) <= maxLines

\* C14: from construction on an animation frame is always scheduled while
\* the container is attached, whatever the handlers did; once the container
\* is detached the request is cancelled and no tick follows
C14_Original ==
    /\ attached => rafPending
    /\ ~attached => ~rafPending

\* C15: normalizeData returns as many values as it was given, each in [0, 1];
\* a frame whose samples are all equal gives 0.5 everywhere, any other frame
\* gives (v - min) / (max - min) for each sample v, so its smallest sample
\* maps to 0 and its largest to 1; this holds for every frame whatever
\* frames were normalized before it
Lowest(data) == CHOOSE v \in {data[i] : i \in DOMAIN data} :
                    \A i \in DOMAIN data : v <= data[i]
Highest(data) == CHOOSE v \in {data[i] : i \in DOMAIN data} :
                     \A i \in DOMAIN data : v >= data[i]
Flat(data) == \A i, j \in DOMAIN data : data[i] = data[j]
C15_Normalized ==
    result # << >> =>
        LET out == result[1] IN
        /\ Len(out) = Len(arg)
        /\ \A i \in DOMAIN out :
              /\ out[i].den > 0
              /\ 0 <= out[i].num
              /\ out[i].num <= out[i].den
              /\ Flat(arg) => 2 * out[i].num = out[i].den
              /\ ~Flat(arg) =>
                    /\ out[i].num * (Highest(arg) - Lowest(arg))
                          = (arg[i] - Lowest(arg)) * out[i].den
                    /\ arg[i] = Lowest(arg) => out[i].num = 0
                    /\ arg[i] = Highest(arg) => out[i].num = out[i].den
\* a frame with its smallest and largest sample and one in between, normalized
C15_Witness ==
    /\ result # << >>
    /\ Len(arg) = 3
    /\ arg[1] < arg[2]
    /\ arg[2] < arg[3]
    /\ result[1][1].num = 0
    /\ result[1][3].num = result[1][3].den

\* C16: for every number, getColor's colour is the HSL interpolation (with
\* the saturation boost) inside the first segment whose upper stop is at or
\* above the value clamped to [0, 1]: the segment exists, its two stops
\* differ in position and the interpolation parameter lies in [0, 1]; every
\* value at or below 0 gives exactly the first stop's colour and every value
\* at or above 1 exactly the last stop's colour; and every input, NaN
\* included, gives a colour made of defined stops
SameQuotient(p, q) == p.num * q.den = q.num * p.den
StopColor(k) ==
    LET c == getHSL(colors[k].hex)
    IN  [h |-> Quotient(c.h, 1), s |-> Boosted(Quotient(c.s, 1)), l |-> Quotient(c.l, 1)]
SameColor(c, d) ==
    /\ SameQuotient(c.h, d.h)
    /\ SameQuotient(c.s, d.s)
    /\ SameQuotient(c.l, d.l)
\* the segment the claim names: the least k with stop k+1 at or above x
SegmentOf(x) ==
    CHOOSE k \in 1..(Len(colors) - 1) :
        /\ x <= colors[k + 1].t
        /\ \A j \in 1..(k - 1) : x > colors[j + 1].t
C16_ColorInterpolated ==
    result # << >> =>
        LET out == result[1] IN
        /\ out.h.den > 0 /\ out.s.den > 0 /\ out.l.den > 0
        /\ \E k \in 1..(Len(colors) - 1) :
              \E num \in 0..(colors[k + 1].t - colors[k].t) :
                 SameQuotient(out.h, Lerp(getHSL(colors[k].hex).h, getHSL(colors[k + 1].hex).h,
                                          num, colors[k + 1].t - colors[k].t))
        /\ ~arg.nan =>
              LET x == IF arg.v < 0 THEN 0 ELSE IF arg.v > Scale THEN Scale ELSE arg.v
                  k == SegmentOf(x)
                  den == colors[k + 1].t - colors[k].t
                  num == x - colors[k].t
              IN  /\ den > 0
                  /\ 0 <= num
                  /\ num <= den
                  /\ SameQuotient(out.h, Lerp(getHSL(colors[k].hex).h,
                                               getHSL(colors[k + 1].hex).h, num, den))
                  /\ arg.v <= 0 => SameColor(out, StopColor(1))
                  /\ arg.v >= Scale => SameColor(out, StopColor(Len(colors)))
\* a value above 1 was clamped and coloured exactly as the last stop
C16_Witness ==
    /\ result # << >>
    /\ ~arg.nan
    /\ arg.v > Scale
    /\ SameColor(result[1], StopColor(Len(colors)))

\* C17: a step that inserts a row moves every row that is in the history
\* afterwards down by exactly one spacing (the new row from the top, each
\* older row from where it was), also when rows were removed from the middle
\* of the history during the pass; the rows that stay keep their order, and
\* a step that inserts nothing moves no row
KeptInOrder ==
    \A i, j \in DOMAIN lines' :
        i < j => \E a, b \in 0..Len(lines) :
                    /\ a < b
                    /\ lines'[i].id = (IF a = 0 THEN frameCount' ELSE lines[a].id)
                    /\ lines'[j].id = lines[b].id
C17_AdvancedOnce ==
    [][/\ Inserted => /\ SurvivorsAdvanced
                       /\ \A j \in DOMAIN lines' :
                             lines'[j].id = frameCount' => lines'[j].y = clientHeight - spacing
                       /\ KeptInOrder
       /\ ~Inserted => lines' = lines]_vars
\* the row before the newest one was removed by the pass that inserted the
\* newest, and the older row behind it stayed and moved
C17_Witness ==
    /\ frameCount >= 3
    /\ Len(lines) = 2
    /\ lines[1].id = frameCount
    /\ lines[2].id = frameCount - 2
    /\ lines[2].y = -spacing

\* C18: after every insert the rows attached to the scene are exactly the
\* rows of the history: no row of the history is missing from the scene and
\* no evicted row is still attached
C18_SceneIsHistory == scene = IdSet(lines)
\* the first row was evicted and the scene holds the two rows that stayed
C18_Witness ==
    /\ frameCount > maxLines
    /\ Cardinality(scene) = maxLines
    /\ 1 \notin scene
    /\ frameCount \in scene

\* C19: no row stays in the history forever while frames keep being
\* accepted.  A row in the history is never below -spacing and every insert
\* moves it one spacing down, so it has only Remaining inserts left; if that
\* many frames can still arrive and the stream is not switched off, the row
\* is eventually gone.  A row that has left the history never comes back
\* to the history or the scene.
Remaining(row) == row.y \div spacing + 2
InHistory(id) == id \in IdSet(lines)
Due(id) ==
    \E i \in DOMAIN lines :
        /\ lines[i].id = id
        /\ Remaining(lines[i]) <= MaxFrames - frameCount
C19_EventuallyEvicted ==
    /\ [](\A i \in DOMAIN lines : Remaining(lines[i]) >= 1)
    /\ [][Inserted => \A i \in DOMAIN lines : \A j \in DOMAIN lines' :
              lines'[j].id = lines[i].id =>
                  Remaining(lines'[j]) = Remaining(lines[i]) - 1]_vars
    /\ [][\A id \in 1..frameCount :
              ~InHistory(id) => (id \notin IdSet(lines') /\ id \notin scene')]_vars
    /\ \A id \in 1..MaxFrames : [](Due(id) => <>(~InHistory(id) \/ ~isStreaming))
\* the first row scrolled out while the stream was on and frames were left
C19_Witness ==
    /\ isStreaming
    /\ frameCount >= 2
    /\ frameCount < MaxFrames
    /\ ~InHistory(1)
    /\ InHistory(frameCount)

\* C20: when the click on stop was the user's last click, that stop request
\* has been answered with success and no start request is outstanding any
\* more, the streaming flag is false (so no spectrum_data event changes the
\* history), whichever of the responses arrived first
C20_Original == (latest = "stopDone" /\ startPending = 0) => ~isStreaming

====
